---- MODULE Spec2Model ----
(***************************************************************************)
(* Model of the load generator (src/src/loadgen/load_generator_v1.py) and  *)
(* of the configuration clamp (src/src/loadgen/config.py).                 *)
(*                                                                         *)
(* run() is one asyncio task; every request is a child task of an          *)
(* asyncio.gather.  A step of the model is one step of one task between    *)
(* two suspension points (await), which is the atomicity asyncio gives.    *)
(* Optional values (x | None) are sequences of length at most one.         *)
(***************************************************************************)
EXTENDS Integers, Sequences, FiniteSets, TLC

\* ------------------------------------------------------------- bounds ---
MaxRequests == 3      \* total_requests ranges over 1..MaxRequests
MaxConcurrency == 4   \* requested concurrency ranges over 1..MaxConcurrency
MaxWarmup == 2        \* warmup_count ranges over 0..MaxWarmup
MaxCancels == 1       \* how many times the run task may be cancelled

None == << >>
Some(v) == << v >>

\* --------------------------------------------------------- config.py ---
\* Faulty variant: the requested concurrency is kept as it is.
validate_concurrency_unclamped(v, total_requests) == v

\* LoadTestConfig.validate_concurrency: clamp, never reject.
validate_concurrency(v, total_requests) ==
    IF v > total_requests THEN total_requests ELSE v

LoadTestConfig(total, conc, warmup) ==
    [ total_requests |-> total,
      concurrency    |-> validate_concurrency(conc, total),
      warmup_count   |-> warmup,
      stream         |-> FALSE ]

\* The keyword arguments of LoadTestConfig(...).  The run-level specification
\* makes non-streaming calls.
ConstructorArguments ==
    [ total_requests : 0..MaxRequests,
      concurrency    : 0..MaxConcurrency,
      warmup_count   : 0..MaxWarmup ]

\* Field(ge=1) of total_requests and concurrency, Field(ge=0) of
\* warmup_count: pydantic raises ValidationError when one does not hold,
\* and no configuration object exists.
FieldsValid(a) ==
    /\ a.total_requests >= 1
    /\ a.concurrency >= 1
    /\ a.warmup_count >= 0

\* ------------------------------------------------------ RequestResult ---
\* Wall-clock fields (latency_ms, tokens_per_second) are not part of the
\* run-level state; the token counts, ttft_ms, success and error are.
RequestResult(ttft_ms, prompt_tokens, completion_tokens, total_tokens, success, error) ==
    [ ttft_ms           |-> ttft_ms,
      prompt_tokens     |-> prompt_tokens,
      completion_tokens |-> completion_tokens,
      total_tokens      |-> total_tokens,
      success           |-> success,
      error             |-> error ]

\* The usage object of a response body: absent, or the three counts.
Usages == { None, Some([prompt_tokens |-> 1, completion_tokens |-> 2,
                        total_tokens |-> 3]) }

UsageGet(usage, field) == IF usage = None THEN 0 ELSE usage[1][field]

\* Ways the HTTP exchange of one call can end at its await.
HttpOutcomes == { "ok", "timeout", "status", "connect", "malformed" }

\* The return statement of the non-streaming branch of _make_request.
SuccessResult(usage) ==
    RequestResult(None,
                  UsageGet(usage, "prompt_tokens"),
                  UsageGet(usage, "completion_tokens"),
                  UsageGet(usage, "total_tokens"),
                  TRUE, None)

\* Faulty variant: a failed result that keeps token counts.
FailedResultLeaky(ttft_time, error) ==
    RequestResult(ttft_time, 0, 1, 1, FALSE, Some(error))

\* Faulty variant: a failed result never carries a ttft_ms.
FailedResultNoTtft(ttft_time, error) ==
    RequestResult(None, 0, 0, 0, FALSE, Some(error))

\* The return statement shared by the three except clauses.
FailedResult(ttft_time, error) ==
    RequestResult(ttft_time, 0, 0, 0, FALSE, Some(error))

\* _make_request from its try block on, for a non-streaming call (ttft_time
\* is still None).  A malformed body raises json.JSONDecodeError and a
\* connection error httpx.ConnectError: both land in `except Exception`.
make_request_result(http, usage) ==
    CASE http = "ok"        -> SuccessResult(usage)
      [] http = "timeout"   -> FailedResult(None, "Timeout")
      [] http = "status"    -> FailedResult(None, "HTTP")
      [] http = "connect"   -> FailedResult(None, "ConnectError")
      [] http = "malformed" -> FailedResult(None, "JSONDecodeError")

\* -------------------------------------------------------------- state ---
VARIABLES
    requested,          \* the arguments LoadTestConfig was constructed from
    config,             \* self.config
    pc,                 \* where run() is suspended: start, warmup,
                        \* load_test, aclose, exit
    warmup_tasks,       \* the tasks of _warmup's gather
    tasks,              \* the tasks of _run_load_test's gather
    semaphore,          \* asyncio.Semaphore(concurrency) of _run_load_test
    completed_requests, \* progress counters of _run_load_test
    failed_requests,
    timer,              \* unset, started (start_time taken),
                        \* stopped (elapsed_time computed)
    valid_results,      \* the list _run_load_test returns
    pending,            \* what the try block of run() ended with
    outcome,            \* what run() exited with
    client,             \* self.client: aclose calls and whether it closed
    run_cancel,         \* a cancellation of the run task awaits delivery
    cancels,            \* cancellations of the run task so far
    call,               \* one call of _make_request, event by event
    agg                 \* one use of _aggregate_results and the percentiles

run_vars == << requested, config, pc, warmup_tasks, tasks, semaphore,
               completed_requests, failed_requests, timer, valid_results,
               pending, outcome, client, run_cancel, cancels >>

vars == << run_vars, call, agg >>

\* A child task of a gather.  st: new (created, not yet run), gate
\* (waiting in semaphore.acquire), exec (inside _make_request, suspended at
\* network I/O), done.  calls counts its entries into _make_request.
NoResult == [ kind |-> "none" ]
ResultOf(r) == [ kind |-> "result", value |-> r ]
ExceptionRaised == [ kind |-> "exception" ]     \* an Exception instance
CancelledError == [ kind |-> "cancelled" ]      \* a BaseException only

NewTask == [ st |-> "new", calls |-> 0, must_cancel |-> FALSE,
             ended |-> "none", res |-> NoResult ]

\* The task finishes: ended records how its call of _make_request ended
\* (none when it never called it), res is what the gather gets from it.
Done(task, ended, res) ==
    [ task EXCEPT !.st = "done", !.ended = ended, !.res = res ]

\* Faulty variant: one coroutine too few.
RequestTasksShort(n) == [ i \in 1..(n - 1) |-> NewTask ]

\* [f() for _ in range(n)]: the n coroutines handed to a gather.
RequestTasks(n) == [ i \in 1..n |-> NewTask ]

\* Every way a call suspended at network I/O can leave _make_request: one
\* of its return statements, or asyncio.CancelledError when the task is
\* cancelled at that await, which no except clause of _make_request catches
\* (it derives from BaseException, not Exception).
make_request(end, usage) ==
    IF end = "cancelled" THEN CancelledError
    ELSE ResultOf(make_request_result(end, usage))

ExecutorEnds == HttpOutcomes \cup { "cancelled" }

ExecutorExits ==
    { [ ended |-> e, res |-> make_request(e, u) ] :
        e \in ExecutorEnds, u \in Usages }

\* _create_payload() is called before the try block of _make_request: an
\* Exception it raises leaves the executor uncaught.
PayloadFaults == { FALSE, TRUE }

\* Faulty variant: gather without return_exceptions=True.
GatherRaisesFirst(ts) == \E i \in DOMAIN ts : ts[i].res.kind = "exception"

\* asyncio.gather(..., return_exceptions=True) never raises the exception
\* of a child: it hands it over in its result list.
GatherRaises(ts) == FALSE

\* Faulty variant: the wait ends with the first child that is done.
GatherDoneEarly(ts) == \E i \in DOMAIN ts : ts[i].st = "done"

\* asyncio.gather(..., return_exceptions=True) is done when every child is.
GatherDone(ts) == \A i \in DOMAIN ts : ts[i].st = "done"

\* Variant: children shielded from the cancellation of the gather.
GatherShielded(ts) == ts

\* Future.cancel() of the gather: every child that is not done is cancelled.
GatherCancel(ts) ==
    [ i \in DOMAIN ts |->
        IF ts[i].st = "done" THEN ts[i]
        ELSE [ ts[i] EXCEPT !.must_cancel = TRUE ] ]

\* The generator right after LoadGeneratorV1(config), for arguments the
\* field constraints accept and a value of the stream flag.
RunInit(a, stream) ==
    /\ FieldsValid(a)
    /\ requested = a
    /\ config = [ LoadTestConfig(a.total_requests, a.concurrency,
                                  a.warmup_count) EXCEPT !.stream = stream ]
    /\ pc = "start"
    /\ warmup_tasks = << >>
    /\ tasks = << >>
    /\ semaphore = [ created |-> FALSE, value |-> 0 ]
    /\ completed_requests = 0
    /\ failed_requests = 0
    /\ timer = "unset"
    /\ valid_results = << >>
    /\ pending = [ kind |-> "none" ]
    /\ outcome = [ kind |-> "none" ]
    /\ client = [ aclose_calls |-> 0, state |-> "open" ]
    /\ run_cancel = FALSE
    /\ cancels = 0

\* No call of _make_request and no aggregation is under study.
NoCall == [ pc |-> "none" ]
NoAggregation == [ pc |-> "none" ]

Init ==
    /\ \E a \in ConstructorArguments : RunInit(a, FALSE)
    /\ call = NoCall
    /\ agg = NoAggregation


\* ------------------------------------------------ _run_load_test, tail ---
\* Faulty variant: the synthesized result has no error text.
TaskExceptionResultNoError == RequestResult(None, 0, 0, 0, FALSE, None)

\* The result synthesized for an Exception instance.
TaskExceptionResult == RequestResult(None, 0, 0, 0, FALSE,
                                     Some("Task exception"))

\* The loop over the gathered results: a RequestResult is kept, an
\* Exception instance becomes a failed result, anything else (a
\* CancelledError instance is not an Exception) matches neither branch.
RECURSIVE process_results(_, _)
process_results(ts, i) ==
    IF i > Len(ts) THEN << >>
    ELSE LET res == ts[i].res
             head == CASE res.kind = "result"    -> << res.value >>
                       [] res.kind = "exception" -> << TaskExceptionResult >>
                       [] OTHER                  -> << >>
         IN  head \o process_results(ts, i + 1)

\* ---------------------------------------------------- _aggregate_results ---
RECURSIVE SumTokens(_)
SumTokens(rs) ==
    IF rs = << >> THEN 0 ELSE Head(rs).total_tokens + SumTokens(Tail(rs))

RECURSIVE Present(_)
Present(opts) ==
    IF opts = << >> THEN << >> ELSE Head(opts) \o Present(Tail(opts))

\* Faulty variant: every result counts as successful.
IsAnyResult(r) == TRUE

\* r.success / not r.success of the two partitions.
IsSuccessful(r) == r.success
IsFailed(r) == ~r.success

aggregate_results(results) ==
    LET successful_results == SelectSeq(results, IsSuccessful)
        failed_results == SelectSeq(results, IsFailed)
    IN  [ total_requests      |-> Len(results),
          successful_requests |-> Len(successful_results),
          failed_requests     |-> Len(failed_results),
          total_tokens        |-> SumTokens(successful_results),
          ttft_latencies      |->
              Present([ i \in 1..Len(successful_results) |->
                          successful_results[i].ttft_ms ]) ]

\* ------------------------------------------------------------- run() ---
\* From `start_time = time.time()` to the await of the gather in
\* _run_load_test: no suspension point in between.
EnterLoadTest ==
    /\ timer' = "started"
    /\ semaphore' = [ created |-> TRUE, value |-> config.concurrency ]
    /\ tasks' = RequestTasks(config.total_requests)
    /\ pc' = "load_test"

\* The finally clause of run(): client.aclose() is called and awaited.
EnterFinally(p) ==
    /\ pending' = p
    /\ client' = [ client EXCEPT !.aclose_calls = @ + 1 ]
    /\ pc' = "aclose"

\* run() up to its first suspension: _warmup returns at once when
\* warmup_count <= 0, else it gathers warmup_count calls of _make_request.
RunStart ==
    /\ pc = "start"
    /\ IF config.warmup_count <= 0
       THEN /\ EnterLoadTest
            /\ UNCHANGED warmup_tasks
       ELSE /\ warmup_tasks' = RequestTasks(config.warmup_count)
            /\ pc' = "warmup"
            /\ UNCHANGED << timer, semaphore, tasks >>
    /\ UNCHANGED << requested, call, agg >>
    /\ UNCHANGED << config, completed_requests, failed_requests,
                    valid_results, pending, outcome, client, run_cancel,
                    cancels >>

\* First step of a warmup task: _make_request with no gate.
WarmupStart(w) ==
    /\ pc = "warmup"
    /\ w \in DOMAIN warmup_tasks
    /\ warmup_tasks[w].st = "new"
    /\ ~warmup_tasks[w].must_cancel
    /\ \E fault \in PayloadFaults :
         warmup_tasks' = [ warmup_tasks EXCEPT ![w] =
            IF fault
            THEN Done([ @ EXCEPT !.calls = @ + 1 ], "payload",
                      ExceptionRaised)
            ELSE [ @ EXCEPT !.calls = @ + 1, !.st = "exec" ] ]
    /\ UNCHANGED << requested, call, agg >>
    /\ UNCHANGED << config, pc, tasks, semaphore, completed_requests,
                    failed_requests, timer, valid_results, pending, outcome,
                    client, run_cancel, cancels >>

\* A warmup call leaves _make_request.
WarmupFinish(w) ==
    /\ pc = "warmup"
    /\ w \in DOMAIN warmup_tasks
    /\ warmup_tasks[w].st = "exec"
    /\ ~warmup_tasks[w].must_cancel
    /\ \E exit \in ExecutorExits :
         warmup_tasks' = [ warmup_tasks EXCEPT ![w] =
                              Done(@, exit.ended, exit.res) ]
    /\ UNCHANGED << requested, call, agg >>
    /\ UNCHANGED << config, pc, tasks, semaphore, completed_requests,
                    failed_requests, timer, valid_results, pending, outcome,
                    client, run_cancel, cancels >>

\* A warmup task the gather cancelled gets CancelledError at its next step.
WarmupCancelled(w) ==
    /\ pc = "warmup"
    /\ w \in DOMAIN warmup_tasks
    /\ warmup_tasks[w].st # "done"
    /\ warmup_tasks[w].must_cancel
    /\ warmup_tasks' = [ warmup_tasks EXCEPT ![w] =
            Done(@, IF @.st = "exec" THEN "cancelled" ELSE "none",
                 CancelledError) ]
    /\ UNCHANGED << requested, call, agg >>
    /\ UNCHANGED << config, pc, tasks, semaphore, completed_requests,
                    failed_requests, timer, valid_results, pending, outcome,
                    client, run_cancel, cancels >>

\* run() resumes from the gather of _warmup: its result list is bound to
\* no name and is gone; a pending cancellation is raised there instead and
\* reaches the `except asyncio.CancelledError` clause, then the finally
\* clause.
WarmupReturn ==
    /\ pc = "warmup"
    /\ GatherDone(warmup_tasks)
    /\ IF run_cancel
       THEN /\ EnterFinally([ kind |-> "cancelled" ])
            /\ UNCHANGED << timer, semaphore, tasks >>
       ELSE IF GatherRaises(warmup_tasks)
       THEN /\ EnterFinally([ kind |-> "error" ])
            /\ UNCHANGED << timer, semaphore, tasks >>
       ELSE /\ EnterLoadTest
            /\ UNCHANGED << pending, client >>
    /\ run_cancel' = FALSE
    /\ warmup_tasks' = [ i \in DOMAIN warmup_tasks |->
          [ warmup_tasks[i] EXCEPT !.ended = "none", !.res = NoResult ] ]
    /\ UNCHANGED << requested, call, agg >>
    /\ UNCHANGED << config, completed_requests, failed_requests,
                    valid_results, outcome, cancels >>


\* ------------------------------------------- bounded_request (measured) ---
\* Faulty variant: a gate that admits every request.
CanAcquireUnbounded(sem) == TRUE

\* Faulty variant: the last permit is never handed out.
CanAcquireButLast(sem) == sem.value > 1

\* asyncio.Semaphore by its contract: acquire takes a permit when the
\* counter is positive and waits otherwise; release gives one back.
CanAcquire(sem) == sem.value > 0

Acquire(sem) == [ sem EXCEPT !.value = @ - 1 ]

\* Faulty variant: the permit is not given back.
ReleaseLost(sem) == sem

Release(sem) == [ sem EXCEPT !.value = @ + 1 ]

\* `async with semaphore` was entered: _make_request is called.  A fault of
\* _create_payload leaves at once through __aexit__, which releases; else
\* the call suspends at network I/O holding its permit.
EnterExecutor(t) ==
    \E fault \in PayloadFaults :
        IF fault
        THEN /\ tasks' = [ tasks EXCEPT ![t] =
                    Done([ @ EXCEPT !.calls = @ + 1 ], "payload",
                         ExceptionRaised) ]
             /\ semaphore' = Release(Acquire(semaphore))
        ELSE /\ tasks' = [ tasks EXCEPT ![t] =
                    [ @ EXCEPT !.calls = @ + 1, !.st = "exec" ] ]
             /\ semaphore' = Acquire(semaphore)

\* First step of a measured task: it is admitted, or waits at the gate.
RequestStart(t) ==
    /\ pc = "load_test"
    /\ t \in DOMAIN tasks
    /\ tasks[t].st = "new"
    /\ ~tasks[t].must_cancel
    /\ IF CanAcquire(semaphore)
       THEN EnterExecutor(t)
       ELSE /\ tasks' = [ tasks EXCEPT ![t].st = "gate" ]
            /\ UNCHANGED semaphore
    /\ UNCHANGED << requested, call, agg >>
    /\ UNCHANGED << config, pc, warmup_tasks, completed_requests,
                    failed_requests, timer, valid_results, pending, outcome,
                    client, run_cancel, cancels >>

\* A task waiting at the gate is admitted once a permit is free.
RequestAdmit(t) ==
    /\ pc = "load_test"
    /\ t \in DOMAIN tasks
    /\ tasks[t].st = "gate"
    /\ ~tasks[t].must_cancel
    /\ CanAcquire(semaphore)
    /\ EnterExecutor(t)
    /\ UNCHANGED << requested, call, agg >>
    /\ UNCHANGED << config, pc, warmup_tasks, completed_requests,
                    failed_requests, timer, valid_results, pending, outcome,
                    client, run_cancel, cancels >>

\* _make_request is left: by a return (the counters are updated, the
\* result is the task's) or by CancelledError; the permit is released on
\* both paths by __aexit__.
RequestFinish(t) ==
    /\ pc = "load_test"
    /\ t \in DOMAIN tasks
    /\ tasks[t].st = "exec"
    /\ ~tasks[t].must_cancel
    /\ \E exit \in ExecutorExits :
         /\ tasks' = [ tasks EXCEPT ![t] = Done(@, exit.ended, exit.res) ]
         /\ IF exit.res.kind = "result"
            THEN /\ completed_requests' = completed_requests + 1
                 /\ failed_requests' = IF exit.res.value.success
                                       THEN failed_requests
                                       ELSE failed_requests + 1
            ELSE UNCHANGED << completed_requests, failed_requests >>
    /\ semaphore' = Release(semaphore)
    /\ UNCHANGED << requested, call, agg >>
    /\ UNCHANGED << config, pc, warmup_tasks, timer, valid_results, pending,
                    outcome, client, run_cancel, cancels >>

\* A task the gather cancelled gets CancelledError where it is suspended:
\* before its first step, in acquire (no permit held), or inside
\* _make_request (the permit is released by __aexit__).
RequestCancelled(t) ==
    /\ pc = "load_test"
    /\ t \in DOMAIN tasks
    /\ tasks[t].st # "done"
    /\ tasks[t].must_cancel
    /\ tasks' = [ tasks EXCEPT ![t] =
            Done(@, IF @.st = "exec" THEN "cancelled" ELSE "none",
                 CancelledError) ]
    /\ semaphore' = IF tasks[t].st = "exec" THEN Release(semaphore)
                    ELSE semaphore
    /\ UNCHANGED << requested, call, agg >>
    /\ UNCHANGED << config, pc, warmup_tasks, completed_requests,
                    failed_requests, timer, valid_results, pending, outcome,
                    client, run_cancel, cancels >>

\* run() resumes from the gather of _run_load_test.  A pending
\* cancellation is raised there (CancelledError passes `except Exception`
\* and reaches the finally clause); an Exception out of the gather would
\* be logged and re-raised; else the results are processed, the elapsed
\* time is taken and the aggregate is the value to return.
LoadTestReturn ==
    /\ pc = "load_test"
    /\ GatherDone(tasks)
    /\ IF run_cancel
       THEN /\ EnterFinally([ kind |-> "cancelled" ])
            /\ UNCHANGED << valid_results, timer >>
       ELSE IF GatherRaises(tasks)
       THEN /\ EnterFinally([ kind |-> "error" ])
            /\ UNCHANGED << valid_results, timer >>
       ELSE /\ valid_results' = process_results(tasks, 1)
            /\ timer' = "stopped"
            /\ EnterFinally([ kind |-> "results",
                              value |-> aggregate_results(valid_results') ])
    /\ run_cancel' = FALSE
    /\ UNCHANGED << requested, call, agg >>
    /\ UNCHANGED << config, warmup_tasks, tasks, semaphore,
                    completed_requests, failed_requests, outcome, cancels >>

\* client.aclose() ends: normally, or with an Exception that the finally
\* clause logs and swallows; run() then exits with what the try block
\* ended with.  A cancellation delivered at this await is not caught.
AcloseOutcomes == { "closed", "close_failed" }

\* Faulty variant: an exception of aclose leaves the finally clause.
AcloseExitRaising(r, p) ==
    IF r = "close_failed" THEN [ kind |-> "error" ] ELSE p

\* What run() exits with once aclose returned r after the try block ended
\* with p: the except clause of the finally block swallows the exception.
AcloseExit(r, p) == p

AcloseReturn ==
    /\ pc = "aclose"
    /\ IF run_cancel
       THEN /\ outcome' = [ kind |-> "cancelled" ]
            /\ UNCHANGED client
       ELSE \E r \in AcloseOutcomes :
                 /\ client' = [ client EXCEPT !.state = r ]
                 /\ outcome' = AcloseExit(r, pending)
    /\ run_cancel' = FALSE
    /\ pc' = "exit"
    /\ UNCHANGED << requested, call, agg >>
    /\ UNCHANGED << config, warmup_tasks, tasks, semaphore,
                    completed_requests, failed_requests, timer,
                    valid_results, pending, cancels >>

\* The run task is cancelled (operator interrupt) while suspended at one
\* of its awaits; cancelling a task that waits on a gather cancels the
\* gather, which cancels its children.
CancelRun ==
    /\ pc \in { "warmup", "load_test", "aclose" }
    /\ ~run_cancel
    /\ cancels < MaxCancels
    /\ run_cancel' = TRUE
    /\ cancels' = cancels + 1
    /\ warmup_tasks' = IF pc = "warmup" THEN GatherCancel(warmup_tasks)
                       ELSE warmup_tasks
    /\ tasks' = IF pc = "load_test" THEN GatherCancel(tasks) ELSE tasks
    /\ UNCHANGED << requested, call, agg >>
    /\ UNCHANGED << config, pc, semaphore, completed_requests,
                    failed_requests, timer, valid_results, pending, outcome,
                    client >>

Next ==
    \/ RunStart
    \/ \E w \in 1..MaxWarmup + 1 : WarmupStart(w)
    \/ \E w \in 1..MaxWarmup + 1 : WarmupFinish(w)
    \/ \E w \in 1..MaxWarmup + 1 : WarmupCancelled(w)
    \/ WarmupReturn
    \/ \E t \in 1..MaxRequests + 1 : RequestStart(t)
    \/ \E t \in 1..MaxRequests + 1 : RequestAdmit(t)
    \/ \E t \in 1..MaxRequests + 1 : RequestFinish(t)
    \/ \E t \in 1..MaxRequests + 1 : RequestCancelled(t)
    \/ LoadTestReturn
    \/ AcloseReturn
    \/ CancelRun

Spec == Init /\ [][Next]_vars


\* ================================================= a run left alone ===
\* The steps of a run that nobody cancels.
UninterruptedNext ==
    \/ RunStart
    \/ \E w \in 1..MaxWarmup + 1 : WarmupStart(w)
    \/ \E w \in 1..MaxWarmup + 1 : WarmupFinish(w)
    \/ WarmupReturn
    \/ \E t \in 1..MaxRequests + 1 : RequestStart(t)
    \/ \E t \in 1..MaxRequests + 1 : RequestAdmit(t)
    \/ \E t \in 1..MaxRequests + 1 : RequestFinish(t)
    \/ LoadTestReturn
    \/ AcloseReturn

\* The event loop runs every task that is ready to run: the run task and
\* each child of a gather take their next step when it stays possible.
\* For WarmupFinish and RequestFinish this is the assumption that every
\* call of the executor returns (the client has a timeout), for
\* AcloseReturn that the close of the client does.
FairSpec ==
    /\ Init
    /\ [][UninterruptedNext]_vars
    /\ WF_vars(RunStart)
    /\ WF_vars(WarmupReturn)
    /\ WF_vars(LoadTestReturn)
    /\ WF_vars(AcloseReturn)
    /\ \A w \in 1..MaxWarmup :
           WF_vars(WarmupStart(w)) /\ WF_vars(WarmupFinish(w))
    /\ \A t \in 1..MaxRequests :
           /\ WF_vars(RequestStart(t))
           /\ WF_vars(RequestAdmit(t))
           /\ WF_vars(RequestFinish(t))


\* ========================================= one call of _make_request ===
\* The call is followed await by await.  The clock of time.time() is an
\* integer number of seconds that advances by one at every await, so a value
\* taken at a later event differs from one taken at an earlier event.
MaxLines == 3     \* lines of the event stream of one streaming call

Max(a, b) == IF a >= b THEN a ELSE b

\* dict.get(key, default) on an optional entry.
Get(opt, default) == IF opt = None THEN default ELSE opt[1]

\* The value under the "usage" key of a stream event: no such key, null, or
\* an object whose counts may each be missing.
NoUsage == [ kind |-> "absent" ]
NullUsage == [ kind |-> "null" ]
UsageObject(prompt_tokens, completion_tokens) ==
    [ kind |-> "object", prompt_tokens |-> prompt_tokens, completion_tokens |-> completion_tokens ]

\* The lines response.aiter_lines() yields.  blank: an empty line or one
\* that does not start with "data: "; done: "data: [DONE]"; badjson: the
\* payload is no JSON (json.JSONDecodeError); keyerror: "choices" is a
\* non-empty object, so data["choices"][0] raises KeyError; chunk: a JSON
\* object, content being len(choices[0].delta.content), 0 when the event
\* has no content.
BlankLine == [ kind |-> "blank" ]
DoneLine == [ kind |-> "done" ]
BadJsonLine == [ kind |-> "badjson" ]
KeyErrorLine == [ kind |-> "keyerror" ]
Chunk(content, usage) == [ kind |-> "chunk", content |-> content, usage |-> usage ]

SseLines ==
    { BlankLine, DoneLine, BadJsonLine, KeyErrorLine,
      Chunk(0, NoUsage),
      Chunk(2, NoUsage),
      Chunk(8, NoUsage),
      Chunk(0, UsageObject(Some(1), Some(5))),
      Chunk(0, UsageObject(Some(1), Some(0))),
      Chunk(0, UsageObject(Some(1), None)),
      Chunk(8, UsageObject(Some(1), Some(5))),
      Chunk(0, NullUsage),
      Chunk(2, NullUsage) }

Streams == UNION { [ 1..n -> SseLines ] : n \in 0..MaxLines }

\* tokens_per_second is a quotient of two integers, kept as the pair.
Ratio(num, den) == [ num |-> num, den |-> den ]
Zero == Ratio(0, 1)

\* RequestResult with its two wall-clock fields.
Timed(r, latency_ms, tokens_per_second) ==
    r @@ [ latency_ms |-> latency_ms, tokens_per_second |-> tokens_per_second ]

\* _make_request before its first await: the locals of the function and of
\* the streaming branch, sse being the lines the server is going to send.
NewCall(sse) ==
    [ pc                    |-> "new",
      sse                   |-> sse,
      pos                   |-> 0,
      now                   |-> 0,
      start_time            |-> 0,
      ttft_time             |-> None,
      first_token_time      |-> None,
      generation_start_time |-> None,
      prompt_tokens         |-> 0,
      completion_tokens     |-> 0,
      ended                 |-> "none",
      res                   |-> NoResult ]

\* f"Timeout: {e}", f"HTTP {status}: {e}", str(e).
ErrorText(mode) ==
    CASE mode = "timeout" -> "Timeout"
      [] mode = "status"  -> "HTTP"
      [] OTHER            -> mode

\* The except clauses of _make_request: end_time is taken and a failed
\* result is returned with ttft_ms=ttft_time, whatever ttft_time is by then.
Failed(c, mode, end_time) ==
    [ c EXCEPT !.pc = "done", !.now = end_time, !.ended = mode,
               !.res = ResultOf(Timed(FailedResult(c.ttft_time, ErrorText(mode)),
                                      (end_time - c.start_time) * 1000,
                                      None)) ]

\* Faulty variant: the first-token time is taken at every content event.
CountContentEvery(c, content, now) ==
    [ c EXCEPT !.first_token_time = Some(now),
               !.ttft_time = Some((now - c.start_time) * 1000),
               !.generation_start_time = Some(now),
               !.completion_tokens = @ + Max(1, content \div 4) ]

\* An event with non-empty delta content: the first one sets
\* first_token_time, ttft_time and generation_start_time; each one adds
\* max(1, len(content) // 4) to completion_tokens.
CountContent(c, content, now) ==
    LET timed == IF c.first_token_time = None
                 THEN [ c EXCEPT !.first_token_time = Some(now),
                                 !.ttft_time = Some((now - c.start_time) * 1000),
                                 !.generation_start_time = Some(now) ]
                 ELSE c
    IN  [ timed EXCEPT !.completion_tokens = @ + Max(1, content \div 4) ]

\* Faulty variant: the reported completion_tokens is added to the estimate.
ReadUsageAdding(c, usage) ==
    [ c EXCEPT !.prompt_tokens = Get(usage.prompt_tokens, 0),
               !.completion_tokens = @ + Get(usage.completion_tokens, 0) ]

\* An event with a usage object: prompt_tokens and completion_tokens are
\* overwritten, completion_tokens keeping its value when the object has no
\* such count.
ReadUsage(c, usage) ==
    [ c EXCEPT !.prompt_tokens = Get(usage.prompt_tokens, 0),
               !.completion_tokens =
                   Get(usage.completion_tokens, c.completion_tokens) ]

\* The body of the inner try for an event that parsed as a JSON object.
\* data["usage"].get on null raises AttributeError, which the inner except
\* clause does not name: it reaches `except Exception` of _make_request.
ProcessChunk(c, line, now) ==
    LET counted == IF line.content > 0
                   THEN CountContent(c, line.content, now)
                   ELSE c
    IN  CASE line.usage.kind = "absent" -> counted
          [] line.usage.kind = "null"   -> Failed(counted, "fault", now)
          [] OTHER                      -> ReadUsage(counted, line.usage)

\* Faulty variant: a malformed event ends the request.
OnMalformedAbort(c, now) == Failed(c, "malformed", now)

\* except (json.JSONDecodeError, KeyError): continue.
OnMalformed(c, now) == c

\* The loop is over: end_time is taken, tokens_per_second is computed and
\* the successful result is returned.
Returned(c, end_time) ==
    LET generation_time == end_time - c.generation_start_time[1]
        tokens_per_second ==
            IF c.generation_start_time # None /\ c.completion_tokens > 0
            THEN IF generation_time > 0
                 THEN Ratio(c.completion_tokens, generation_time)
                 ELSE Zero
            ELSE Zero
    IN  [ c EXCEPT !.pc = "done", !.now = end_time, !.ended = "ok",
                   !.res = ResultOf(Timed(
                       RequestResult(c.ttft_time, c.prompt_tokens,
                                     c.completion_tokens,
                                     c.prompt_tokens + c.completion_tokens,
                                     TRUE, None),
                       (end_time - c.start_time) * 1000,
                       Some(tokens_per_second))) ]

\* if line == "data: [DONE]": break.
OnDone(c, now) == Returned(c, now)

\* Ways client.stream(...) and raise_for_status() can end.
StreamOpens == { "ok", "timeout", "status", "connect" }

\* Ways the await of the next line can fail: httpx.ReadTimeout, or another
\* transport error (`except Exception`).
ReadFaults == { "timeout", "read_error" }

OneRequest == [ total_requests |-> 1, concurrency |-> 1, warmup_count |-> 0 ]

CallInit ==
    /\ \E stream \in BOOLEAN :
         /\ RunInit(OneRequest, stream)
         /\ call \in { NewCall(sse) :
                         sse \in IF stream THEN Streams ELSE { << >> } }
    /\ agg = NoAggregation

\* _make_request up to its first await: the streaming branch opens the
\* stream, which may fail; the other branch awaits client.post.
CallStart ==
    /\ call.pc = "new"
    /\ IF config.stream
       THEN \E open \in StreamOpens :
                call' = IF open = "ok"
                        THEN [ call EXCEPT !.pc = "stream", !.now = @ + 1 ]
                        ELSE Failed(call, open, call.now + 1)
       ELSE call' = [ call EXCEPT !.pc = "post" ]
    /\ UNCHANGED << run_vars, agg >>

\* One iteration of `async for line in response.aiter_lines()`.
ReadLine ==
    /\ call.pc = "stream"
    /\ call.pos < Len(call.sse)
    /\ LET line == call.sse[call.pos + 1]
           now == call.now + 1
           read == [ call EXCEPT !.pos = @ + 1, !.now = now ]
       IN  call' = CASE line.kind = "blank" -> read
                     [] line.kind = "done"  -> OnDone(read, now)
                     [] line.kind = "chunk" -> ProcessChunk(read, line, now)
                     [] OTHER               -> OnMalformed(read, now)
    /\ UNCHANGED << run_vars, agg >>

\* The server closed the stream: the loop ends without "data: [DONE]".
StreamExhausted ==
    /\ call.pc = "stream"
    /\ call.pos = Len(call.sse)
    /\ call' = Returned(call, call.now + 1)
    /\ UNCHANGED << run_vars, agg >>

\* The await of the next line raises.
ReadFault ==
    /\ call.pc = "stream"
    /\ \E e \in ReadFaults : call' = Failed(call, e, call.now + 1)
    /\ UNCHANGED << run_vars, agg >>

\* The non-streaming branch from `await self.client.post` on.
PostFinish ==
    /\ call.pc = "post"
    /\ \E http \in HttpOutcomes, usage \in Usages :
         LET end_time == call.now + 1
             r == make_request_result(http, usage)
             generation_time == end_time - call.start_time
             tokens_per_second ==
                 IF ~r.success THEN None
                 ELSE IF generation_time > 0
                 THEN Some(Ratio(r.completion_tokens, generation_time))
                 ELSE Some(Zero)
         IN  call' = [ call EXCEPT
                 !.pc = "done", !.now = end_time, !.ended = http,
                 !.res = ResultOf(Timed(r, (end_time - call.start_time) * 1000,
                                        tokens_per_second)) ]
    /\ UNCHANGED << run_vars, agg >>

CallNext ==
    \/ CallStart
    \/ ReadLine
    \/ StreamExhausted
    \/ ReadFault
    \/ PostFinish

CallSpec == CallInit /\ [][CallNext]_vars


\* ================================ _aggregate_results and percentiles ===
\* Times of this part are in hundredths of a millisecond, so that
\* round(value, 1) has a digit to drop.  Every time is an even number of
\* hundredths: the mean of two is exact and is never half way between two
\* tenths, where the result of round depends on the binary fraction.
MaxResults == 4   \* results handed to one aggregation

\* The results of the measured phase: successes with and without ttft_ms
\* and tokens_per_second, a timeout before and one after the first content
\* event, and a failed result with token counts as another caller of the
\* dataclass may build it.
ResultPool ==
    { Timed(RequestResult(Some(500), 1, 2, 3, TRUE, None), 1000, Some(Ratio(2, 1))),
      Timed(RequestResult(None, 0, 0, 0, TRUE, None), 2000, Some(Zero)),
      Timed(RequestResult(Some(1504), 0, 5, 5, TRUE, None), 3004, None),
      Timed(RequestResult(Some(2000), 1, 5, 6, TRUE, None), 4000, Some(Ratio(5, 2))),
      Timed(FailedResult(None, "Timeout"), 2000, None),
      Timed(FailedResult(Some(500), "Timeout"), 1000, None),
      Timed(RequestResult(Some(700), 1, 3, 4, FALSE, Some("fault")), 3004, Some(Ratio(3, 1))) }

ResultSequences == UNION { [ 1..n -> ResultPool ] : n \in 0..MaxResults }

\* The percentiles asked for: those of log_results (50, 95, 99), the ends
\* of the range and values whose rank is whole for 4 or 5 values.
Percentiles == { 0, 1, 20, 25, 50, 75, 95, 99, 100 }

\* sorted(list): a sorted copy.
RECURSIVE Insert(_, _)
Insert(v, s) ==
    IF s = << >> THEN << v >>
    ELSE IF v <= Head(s) THEN << v >> \o s
    ELSE << Head(s) >> \o Insert(v, Tail(s))

RECURSIVE sorted(_)
sorted(s) == IF s = << >> THEN << >> ELSE Insert(Head(s), sorted(Tail(s)))

\* round(value, 1) on hundredths: to the nearest tenth, a tie to the even
\* tenth.
round(value) ==
    LET r == value % 10
        down == value - r
    IN  IF r < 5 THEN down
        ELSE IF r > 5 THEN down + 10
        ELSE IF (down \div 10) % 2 = 0 THEN down ELSE down + 10

\* Variant: the index-based percentile, without the averaging.
get_percentile_by_index(latencies, percentile) ==
    IF latencies = << >> THEN 0
    ELSE LET sorted_latencies == sorted(latencies)
             n == Len(sorted_latencies)
         IN  round(sorted_latencies[
                 (IF (percentile * n) \div 100 <= n - 1
                  THEN (percentile * n) \div 100 ELSE n - 1) + 1])

\* LoadTestResults.get_percentile.  rank = percentile / 100 * n is whole
\* exactly when percentile * n is a multiple of 100, and int(rank) is the
\* integer quotient; indices of the model start at 1.
get_percentile(latencies, percentile) ==
    IF latencies = << >> THEN 0
    ELSE LET sorted_latencies == sorted(latencies)
             n == Len(sorted_latencies)
             int_rank == (percentile * n) \div 100
             exact == (percentile * n) % 100 = 0 /\ percentile * n > 0
             value ==
                 IF exact
                 THEN LET index == int_rank - 1
                      IN  IF index + 1 < n
                          THEN (sorted_latencies[index + 1]
                                + sorted_latencies[index + 2]) \div 2
                          ELSE sorted_latencies[index + 1]
                 ELSE LET index == IF int_rank <= n - 1
                                   THEN int_rank ELSE n - 1
                      IN  sorted_latencies[index + 1]
         IN  round(value)

\* LoadTestResults.get_ttft_percentile: the same routine, written again,
\* over ttft_latencies.
get_ttft_percentile(ttft_latencies, percentile) ==
    IF ttft_latencies = << >> THEN 0
    ELSE LET sorted_ttft == sorted(ttft_latencies)
             n == Len(sorted_ttft)
             int_rank == (percentile * n) \div 100
             exact == (percentile * n) % 100 = 0 /\ percentile * n > 0
             value ==
                 IF exact
                 THEN LET index == int_rank - 1
                      IN  IF index + 1 < n
                          THEN (sorted_ttft[index + 1]
                                + sorted_ttft[index + 2]) \div 2
                          ELSE sorted_ttft[index + 1]
                 ELSE LET index == IF int_rank <= n - 1
                                   THEN int_rank ELSE n - 1
                      IN  sorted_ttft[index + 1]
         IN  round(value)

HasTtft(r) == r.ttft_ms # None
HasSpeed(r) == r.tokens_per_second # None

\* Faulty variant: the successful results are taken out of the list.
ResultsDrained(results) == SelectSeq(results, IsFailed)

\* The list `results` after _aggregate_results returned: the function reads
\* it through comprehensions and sum only and assigns nothing of it.
ResultsLeft(results) == results

\* _aggregate_results with every field of LoadTestResults.
AggregateResults(results, elapsed_time) ==
    LET successful_results == SelectSeq(results, IsSuccessful)
        failed_results == SelectSeq(results, IsFailed)
        with_ttft == SelectSeq(successful_results, HasTtft)
        with_speed == SelectSeq(successful_results, HasSpeed)
    IN  [ total_requests      |-> Len(results),
          successful_requests |-> Len(successful_results),
          failed_requests     |-> Len(failed_results),
          total_tokens        |-> SumTokens(successful_results),
          elapsed_time        |-> elapsed_time,
          latencies           |->
              [ i \in 1..Len(successful_results) |->
                  successful_results[i].latency_ms ],
          ttft_latencies      |->
              [ i \in 1..Len(with_ttft) |-> with_ttft[i].ttft_ms[1] ],
          generation_speeds   |->
              [ i \in 1..Len(with_speed) |->
                  with_speed[i].tokens_per_second[1] ] ]

\* A result list and an elapsed time before the aggregation; out is the
\* LoadTestResults of the last call, query the last percentile asked of it.
NewAggregation(results, elapsed_time) ==
    [ pc           |-> "ready",
      results      |-> results,
      elapsed_time |-> elapsed_time,
      calls        |-> 0,
      out          |-> None,
      query        |-> None ]

AggInit ==
    /\ RunInit(OneRequest, FALSE)
    /\ call = NoCall
    /\ agg \in { NewAggregation(rs, 2) : rs \in ResultSequences }

\* One call of _aggregate_results on the list as the last call left it; it
\* is called up to twice.
Aggregate ==
    /\ agg.pc = "ready"
    /\ agg.calls < 2
    /\ agg' = [ agg EXCEPT
           !.calls = @ + 1,
           !.out = Some(AggregateResults(agg.results, agg.elapsed_time)),
           !.results = ResultsLeft(agg.results) ]
    /\ UNCHANGED << run_vars, call >>

\* A percentile is asked of the LoadTestResults; the routines keep no
\* state, so one question per aggregation shows them all.
GetPercentile(p) ==
    /\ agg.pc = "ready"
    /\ agg.out # None
    /\ agg.query = None
    /\ agg' = [ agg EXCEPT !.query =
           Some([ fn |-> "get_percentile", percentile |-> p,
                  value |-> get_percentile(agg.out[1].latencies, p) ]) ]
    /\ UNCHANGED << run_vars, call >>

GetTtftPercentile(p) ==
    /\ agg.pc = "ready"
    /\ agg.out # None
    /\ agg.query = None
    /\ agg' = [ agg EXCEPT !.query =
           Some([ fn |-> "get_ttft_percentile", percentile |-> p,
                  value |-> get_ttft_percentile(agg.out[1].ttft_latencies,
                                                p) ]) ]
    /\ UNCHANGED << run_vars, call >>

AggNext ==
    \/ Aggregate
    \/ \E p \in Percentiles : GetPercentile(p)
    \/ \E p \in Percentiles : GetTtftPercentile(p)

AggSpec == AggInit /\ [][AggNext]_vars


\* ============================================================== claims ===
\* Requests inside _make_request: entered and not yet returned.
InFlight == Cardinality({ t \in DOMAIN tasks : tasks[t].st = "exec" })

AtGate == { t \in DOMAIN tasks : tasks[t].st = "gate" }

AllFinished(ts) == \A i \in DOMAIN ts : ts[i].st = "done"

\* The measured phase completed: the gather of _run_load_test returned its
\* result list and the elapsed time was taken.
MeasuredPhaseCompleted == timer = "stopped"

\* C1: during the measured phase the number of requests that entered the
\* executor and have not returned never exceeds config.concurrency,
\* whatever the interleaving of the request tasks.
C1_InFlightBounded == InFlight <= config.concurrency

\* C1 witness: the bound is reached with at least two requests in flight
\* while another request waits at the gate.
C1_Witness ==
    /\ config.concurrency >= 2
    /\ InFlight = config.concurrency
    /\ AtGate # {}

\* C2: whenever run() returns a LoadTestResults, the result sequence has
\* exactly config.total_requests entries, one per request attempt also when
\* the attempt ended with a fault escaping the executor, and successful +
\* failed = total_requests = config.total_requests.
C2_ResultCountExact ==
    outcome.kind = "results" =>
        /\ Len(valid_results) = config.total_requests
        /\ outcome.value.total_requests = config.total_requests
        /\ outcome.value.successful_requests + outcome.value.failed_requests
               = outcome.value.total_requests

\* C3: when the measured phase completes, every one of the total_requests
\* request tasks has invoked the executor exactly once (none skipped), and
\* at no time has a task invoked it twice.
C3_ExactlyNAttempts ==
    /\ \A t \in DOMAIN tasks : tasks[t].calls <= 1
    /\ MeasuredPhaseCompleted =>
           /\ DOMAIN tasks = 1..config.total_requests
           /\ \A t \in DOMAIN tasks : tasks[t].calls = 1

\* C3 witness: the measured phase completed for a run with more requests
\* than permits and more than one permit.
C3_Witness ==
    /\ MeasuredPhaseCompleted
    /\ config.concurrency >= 2
    /\ config.total_requests > config.concurrency


\* Every request task of the phase in progress, warmup or measured.
LiveTasks ==
    { warmup_tasks[w] : w \in DOMAIN warmup_tasks }
    \cup { tasks[t] : t \in DOMAIN tasks }

ExceptionModes == { "timeout", "status", "connect", "malformed" }

IsFailedResult(res) ==
    /\ res.kind = "result"
    /\ res.value.success = FALSE
    /\ res.value.error # None
    /\ res.value.prompt_tokens = 0
    /\ res.value.completion_tokens = 0
    /\ res.value.total_tokens = 0

\* C4 as stated: for every failure mode, cancellation of the task while it
\* is suspended at network I/O included, _make_request returns a failed
\* RequestResult (error present, all token counts 0) and raises nothing.
C4_NeverRaises ==
    \A task \in LiveTasks :
        task.ended \in ExceptionModes \cup { "cancelled" }
            => IsFailedResult(task.res)

\* C4 amended: a timeout, a non-2xx status, a connection error and a
\* malformed response each give a failed RequestResult with an error and
\* all token counts 0, and a completed exchange gives a successful one;
\* the cancellation of the task at network I/O is not caught by
\* _make_request: the task ends with CancelledError and no result.
C4_ExceptionsBecomeResults ==
    \A task \in LiveTasks :
        /\ task.ended \in ExceptionModes => IsFailedResult(task.res)
        /\ task.ended = "ok" =>
               task.res.kind = "result" /\ task.res.value.success
        /\ task.ended = "cancelled" => task.res = CancelledError

\* C4 witness: in one measured phase a request timed out, another got a
\* malformed response and a third was cancelled at network I/O.
C4_Witness ==
    /\ \E t \in DOMAIN tasks : tasks[t].ended = "timeout"
    /\ \E t \in DOMAIN tasks : tasks[t].ended = "malformed"
    /\ \E t \in DOMAIN tasks :
           tasks[t].ended = "cancelled" /\ ~tasks[t].must_cancel

\* C5: once the measured phase completed, every request task whose call
\* left the executor by a fault has exactly one failed result "Task
\* exception" at its place in the result sequence, and every sibling has
\* its own result there: nothing is dropped.
C5_EscapedFaultRecorded ==
    MeasuredPhaseCompleted =>
        /\ Len(valid_results) = Len(tasks)
        /\ \A t \in DOMAIN tasks :
               IF tasks[t].res.kind = "result"
               THEN valid_results[t] = tasks[t].res.value
               ELSE valid_results[t] = TaskExceptionResult

\* C6: once the gate exists, free permits plus requests inside the executor
\* equal config.concurrency in every state, on every exit path of a request
\* (return, exception, cancellation), and every permit is free again when
\* all request tasks have finished.
C6_PermitsConserved ==
    /\ ~semaphore.created => tasks = << >>
    /\ semaphore.created =>
           /\ semaphore.value + InFlight = config.concurrency
           /\ AllFinished(tasks) => semaphore.value = config.concurrency

\* C6 witness: all request tasks have finished, one by an exception of the
\* executor, one cancelled by the gather while inside the executor, one by
\* a normal return.
C6_Witness ==
    /\ semaphore.created
    /\ AllFinished(tasks)
    /\ \E t \in DOMAIN tasks : tasks[t].ended = "payload"
    /\ \E t \in DOMAIN tasks :
           tasks[t].ended = "cancelled" /\ tasks[t].must_cancel
    /\ \E t \in DOMAIN tasks : tasks[t].ended = "ok"

\* C7: no measured request exists before the start timestamp is taken and
\* the start timestamp is taken only when every warmup request has
\* finished; the end timestamp is taken only when every measured request
\* has finished and before close of the client is attempted; the timer
\* only goes unset -> started -> stopped.
C7_TimerState ==
    /\ timer = "unset" => tasks = << >>
    /\ timer # "unset" => AllFinished(warmup_tasks)
    /\ timer = "stopped" => AllFinished(tasks)

C7_TimerStep ==
    /\ timer' # timer =>
           \/ timer = "unset" /\ timer' = "started"
           \/ timer = "started" /\ timer' = "stopped"
    /\ (timer = "unset" /\ timer' = "started") =>
           /\ AllFinished(warmup_tasks)
           /\ \A t \in DOMAIN tasks' : tasks'[t].st = "new"
    /\ (timer = "started" /\ timer' = "stopped") =>
           /\ AllFinished(tasks)
           /\ client.aclose_calls = 0
           /\ client.state = "open"

C7_WarmupPrecedesMeasured == [][C7_TimerState' /\ C7_TimerStep]_vars

\* C7 witness: a run with two warmup requests returned its results.
C7_Witness ==
    /\ config.warmup_count >= 2
    /\ timer = "stopped"
    /\ pc = "exit"
    /\ outcome.kind = "results"

\* C8: warmup issues no request when warmup_count = 0 and else exactly
\* warmup_count executor calls, none of which waits at the gate (the gate
\* does not exist yet); during warmup the result list, the progress
\* counters and the value to return are untouched; only a cancellation
\* keeps the measured phase from starting; and the LoadTestResults is a
\* function of the measured tasks alone.
C8_WarmupDiscarded ==
    /\ config.warmup_count = 0 => warmup_tasks = << >>
    /\ \A w \in DOMAIN warmup_tasks :
           warmup_tasks[w].st # "gate" /\ warmup_tasks[w].calls <= 1
    /\ pc = "warmup" =>
           /\ ~semaphore.created
           /\ tasks = << >>
           /\ valid_results = << >>
           /\ completed_requests = 0 /\ failed_requests = 0
           /\ pending.kind = "none"
    /\ timer # "unset" =>
           /\ DOMAIN warmup_tasks = 1..config.warmup_count
           /\ \A w \in DOMAIN warmup_tasks : warmup_tasks[w].calls = 1
    /\ (pc \in { "aclose", "exit" } /\ timer = "unset") =>
           pending.kind = "cancelled"
    /\ outcome.kind = "results" =>
           outcome.value = aggregate_results(process_results(tasks, 1))

\* C8 witness: warmup is over with one request that raised and one that
\* failed, and the run is about to go on.
C8_Witness ==
    /\ pc = "warmup"
    /\ AllFinished(warmup_tasks)
    /\ ~run_cancel
    /\ \E w \in DOMAIN warmup_tasks : warmup_tasks[w].res.kind = "exception"
    /\ \E w \in DOMAIN warmup_tasks :
           /\ warmup_tasks[w].res.kind = "result"
           /\ ~warmup_tasks[w].res.value.success

\* C9 as stated: a request that is inside the executor is never cancelled
\* by the controller, also when run() is cancelled during the measured
\* phase, and a run cancelled in that phase ends with the cancellation, not
\* with a LoadTestResults.
C9_DispatchedNotCancelled ==
    /\ \A t \in DOMAIN tasks :
           tasks[t].calls >= 1 => ~tasks[t].must_cancel
    /\ (pc = "exit" /\ timer = "started") => outcome.kind = "cancelled"

\* C9 amended: when run() is cancelled during the measured phase the gather
\* cancels every request task that has not finished, those inside the
\* executor included; a cancelled task ends with CancelledError and not
\* with a result; requests that had finished keep their results; and the
\* run ends with the cancellation, not with a LoadTestResults.
C9_CancelReachesDispatched ==
    /\ (pc = "load_test" /\ run_cancel) =>
           \A t \in DOMAIN tasks :
               tasks[t].st # "done" => tasks[t].must_cancel
    /\ \A t \in DOMAIN tasks :
           (tasks[t].must_cancel /\ tasks[t].st = "done") =>
               /\ tasks[t].res = CancelledError
               /\ tasks[t].calls = 1 => tasks[t].ended = "cancelled"
    /\ (pc \in { "aclose", "exit" } /\ timer = "started") =>
           pending.kind = "cancelled"
    /\ (pc = "exit" /\ timer = "started") => outcome.kind = "cancelled"

\* C9 witness: the run exited cancelled after the gather cancelled a
\* request inside the executor, while a sibling had already returned.
C9_Witness ==
    /\ pc = "exit"
    /\ outcome.kind = "cancelled"
    /\ \E t \in DOMAIN tasks :
           /\ tasks[t].must_cancel
           /\ tasks[t].calls = 1
           /\ tasks[t].res = CancelledError
    /\ \E t \in DOMAIN tasks : tasks[t].res.kind = "result"

\* C10: close of the client is not attempted before the finally clause and
\* exactly once on every path to the exit of run(); when the close returns
\* or fails with an exception, run() exits with what its try block ended
\* with (the LoadTestResults or the cancellation); the only other exit is a
\* cancellation delivered while the close is awaited.
C10_ClosedOnceOutcomeKept ==
    /\ pc \in { "start", "warmup", "load_test" } =>
           client.aclose_calls = 0 /\ client.state = "open"
    /\ pc \in { "aclose", "exit" } =>
           client.aclose_calls = 1 /\ pending.kind # "none"
    /\ (pc = "exit" /\ client.state # "open") => outcome = pending
    /\ (pc = "exit" /\ client.state = "open") => outcome.kind = "cancelled"

\* C10 witness: the close failed and run() still returned its results.
C10_Witness ==
    /\ pc = "exit"
    /\ client.state = "close_failed"
    /\ outcome.kind = "results"

\* A call of _make_request under study has returned a RequestResult.
CallReturned == call.pc = "done" /\ call.res.kind = "result"

\* An event with non-empty delta content was read before the call ended.
ContentSeen ==
    \E i \in 1..call.pos :
        call.sse[i].kind = "chunk" /\ call.sse[i].content > 0

NoTokens(r) ==
    r.prompt_tokens = 0 /\ r.completion_tokens = 0 /\ r.total_tokens = 0

ErrorIffFailed(r) == (r.error # None) <=> ~r.success

\* C12: every RequestResult that reaches the aggregator, returned by the
\* executor or synthesized by the controller for an escaped fault, has an
\* error if and only if its success is false.
C12_ErrorIffFailed ==
    /\ \A t \in DOMAIN tasks :
           tasks[t].res.kind = "result" => ErrorIffFailed(tasks[t].res.value)
    /\ \A i \in DOMAIN valid_results : ErrorIffFailed(valid_results[i])

\* C12 witness: the aggregator got a successful result, a failed result of
\* the executor and a result synthesized for an escaped fault.
C12_Witness ==
    /\ MeasuredPhaseCompleted
    /\ \E i \in DOMAIN valid_results : valid_results[i].success
    /\ \E i \in DOMAIN valid_results :
           valid_results[i].error = Some("Timeout")
    /\ \E i \in DOMAIN valid_results :
           valid_results[i].error = Some("Task exception")

\* C13: every construction of LoadTestConfig with total_requests >= 1 and
\* concurrency >= 1 is accepted, its concurrency is the smaller of the
\* requested concurrency and total_requests, and concurrency <=
\* total_requests holds for the configuration in every state of the run.
C13_ConcurrencyClamped ==
    /\ \A a \in ConstructorArguments :
           (a.total_requests >= 1 /\ a.concurrency >= 1) => FieldsValid(a)
    /\ config.total_requests = requested.total_requests
    /\ config.concurrency =
           IF requested.concurrency <= requested.total_requests
           THEN requested.concurrency
           ELSE requested.total_requests
    /\ config.concurrency >= 1
    /\ config.concurrency <= config.total_requests

\* C13 witness: a run constructed with more concurrency than requests
\* returned its results.
C13_Witness ==
    /\ requested.concurrency > requested.total_requests
    /\ requested.total_requests >= 2
    /\ pc = "exit"
    /\ outcome.kind = "results"

\* The sequence the last percentile was asked over.
QueryValues ==
    IF agg.query[1].fn = "get_percentile"
    THEN agg.out[1].latencies
    ELSE agg.out[1].ttft_latencies

\* The k-th smallest of values (sorted[k - 1] of a sorted copy), by counting.
KthSmallest(values, k) ==
    CHOOSE v \in { values[i] : i \in DOMAIN values } :
        /\ Cardinality({ i \in DOMAIN values : values[i] < v }) < k
        /\ k <= Cardinality({ i \in DOMAIN values : values[i] <= v })

\* The reference nearest-rank value of the specification, rank being
\* p / 100 * n: whole when p * n is a multiple of 100.
NearestRank(values, p) ==
    LET n == Len(values)
        floor_rank == (p * n) \div 100
    IN  IF n = 0 THEN 0
        ELSE IF (p * n) % 100 = 0 /\ p * n > 0
        THEN IF floor_rank = n
             THEN KthSmallest(values, n)
             ELSE (KthSmallest(values, floor_rank)
                   + KthSmallest(values, floor_rank + 1)) \div 2
        ELSE IF floor_rank < n - 1
             THEN KthSmallest(values, floor_rank + 1)
             ELSE KthSmallest(values, n)

\* C14 as stated: for every sequence of latencies and every percentile,
\* get_percentile and get_ttft_percentile return the reference nearest-rank
\* value over the sorted copy (the mean of sorted[rank-1] and sorted[rank]
\* for a whole rank, sorted[rank-1] when rank = n, else
\* sorted[min(floor(rank), n-1)]), and 0 for an empty sequence.
C14_NearestRank ==
    (agg.pc = "ready" /\ agg.query # None) =>
        agg.query[1].value = NearestRank(QueryValues, agg.query[1].percentile)

\* C14 amended: they return that reference value rounded to one decimal
\* place, and 0 for an empty sequence.
C14_NearestRankRounded ==
    (agg.pc = "ready" /\ agg.query # None) =>
        agg.query[1].value =
            round(NearestRank(QueryValues, agg.query[1].percentile))

\* C14 witness: the median of four latencies was asked, a whole rank whose
\* mean of two values has a second decimal.
C14_Witness ==
    /\ agg.pc = "ready"
    /\ agg.query # None
    /\ agg.query[1].fn = "get_percentile"
    /\ agg.query[1].percentile = 50
    /\ Len(agg.out[1].latencies) = 4
    /\ agg.query[1].value # NearestRank(QueryValues, 50)

\* The entries of rs at the indices in S, in increasing order of index.
At(rs, S) ==
    [ k \in 1..Cardinality(S) |->
        rs[CHOOSE i \in S : Cardinality({ j \in S : j < i }) = k - 1] ]

RECURSIVE TokensAt(_, _)
TokensAt(rs, S) ==
    IF S = {} THEN 0
    ELSE LET i == CHOOSE j \in S : TRUE
         IN  rs[i].total_tokens + TokensAt(rs, S \ { i })

\* rs with its entries at i and i + 1 exchanged; these exchanges generate
\* every permutation.
Swap(rs, i) ==
    [ k \in DOMAIN rs |->
        IF k = i THEN rs[i + 1] ELSE IF k = i + 1 THEN rs[i] ELSE rs[k] ]

SameCountsAndSums(a, b) ==
    /\ a.total_requests = b.total_requests
    /\ a.successful_requests = b.successful_requests
    /\ a.failed_requests = b.failed_requests
    /\ a.total_tokens = b.total_tokens
    /\ sorted(a.latencies) = sorted(b.latencies)
    /\ sorted(a.ttft_latencies) = sorted(b.ttft_latencies)
    /\ Len(a.generation_speeds) = Len(b.generation_speeds)

\* C15: _aggregate_results sums total_tokens over the successful results
\* only, takes latencies from exactly the successful results, ttft_latencies
\* from exactly the successful results with a ttft_ms and generation_speeds
\* from exactly the successful results with a tokens_per_second; a failed
\* result adds to failed_requests and to nothing else; counts and sums are
\* the same for every permutation of the sequence.
C15_AggregateExact ==
    (agg.pc = "ready" /\ agg.out # None) =>
        LET rs == agg.results
            o == agg.out[1]
            S == { i \in DOMAIN rs : rs[i].success }
            T == { i \in S : rs[i].ttft_ms # None }
            G == { i \in S : rs[i].tokens_per_second # None }
        IN  /\ o.total_requests = Len(rs)
            /\ o.successful_requests = Cardinality(S)
            /\ o.failed_requests = Len(rs) - Cardinality(S)
            /\ o.total_tokens = TokensAt(rs, S)
            /\ o.elapsed_time = agg.elapsed_time
            /\ o.latencies =
                   [ k \in 1..Cardinality(S) |-> At(rs, S)[k].latency_ms ]
            /\ o.ttft_latencies =
                   [ k \in 1..Cardinality(T) |-> At(rs, T)[k].ttft_ms[1] ]
            /\ o.generation_speeds =
                   [ k \in 1..Cardinality(G) |->
                       At(rs, G)[k].tokens_per_second[1] ]
            /\ \A i \in 1..(Len(rs) - 1) :
                   SameCountsAndSums(
                       AggregateResults(Swap(rs, i), agg.elapsed_time), o)

\* C15 witness: an aggregate of two successes, one of them without
\* ttft_ms, and two failures, one with a ttft_ms and one with token counts.
C15_Witness ==
    /\ agg.pc = "ready"
    /\ agg.out # None
    /\ agg.out[1].successful_requests = 2
    /\ agg.out[1].failed_requests = 2
    /\ Len(agg.out[1].ttft_latencies) = 1
    /\ \E i \in DOMAIN agg.results :
           ~agg.results[i].success /\ agg.results[i].total_tokens > 0
    /\ \E i \in DOMAIN agg.results :
           ~agg.results[i].success /\ agg.results[i].total_tokens = 0
                                   /\ agg.results[i].ttft_ms # None

StreamSucceeded ==
    /\ CallReturned
    /\ config.stream
    /\ call.res.value.success

IsContent(line) == line.kind = "chunk" /\ line.content > 0

\* The events read so far that report usage.completion_tokens.
Reporting ==
    { i \in 1..call.pos :
        /\ call.sse[i].kind = "chunk"
        /\ call.sse[i].usage.kind = "object"
        /\ call.sse[i].usage.completion_tokens # None }

Reported(i) == call.sse[i].usage.completion_tokens[1]

LastReporting == CHOOSE i \in Reporting : \A j \in Reporting : j <= i

\* The estimator's total over the content events read at the indices in S:
\* one token per 4 characters, at least one per event.
RECURSIVE Estimate(_)
Estimate(S) ==
    IF S = {} THEN 0
    ELSE LET i == CHOOSE j \in S : TRUE
             len == call.sse[i].content
         IN  (IF ~IsContent(call.sse[i]) THEN 0
              ELSE IF len < 4 THEN 1 ELSE len \div 4)
             + Estimate(S \ { i })

\* C17 as stated: whenever some event of the stream reports
\* usage.completion_tokens, the completion_tokens of the successful result
\* is that reported value, the estimate never adding to it whatever the
\* order of content and usage events; when no event reports it, it is the
\* estimator's total.
C17_UsageAlwaysWins ==
    StreamSucceeded =>
        IF Reporting = {}
        THEN call.res.value.completion_tokens = Estimate(1..call.pos)
        ELSE \E i \in Reporting :
                 call.res.value.completion_tokens = Reported(i)

\* C17 amended: the completion_tokens of the successful result is the value
\* of the last event that reports usage.completion_tokens plus the estimate
\* of every content event read after that event; content read before it or
\* in it adds nothing.  It is the reported value when the usage comes in a
\* final accounting event, and the estimator's total when no event reports
\* usage.completion_tokens.
C17_LastUsageThenEstimate ==
    StreamSucceeded =>
        LET r == call.res.value
        IN  /\ r.completion_tokens =
                   IF Reporting = {}
                   THEN Estimate(1..call.pos)
                   ELSE Reported(LastReporting)
                        + Estimate((LastReporting + 1)..call.pos)
            /\ r.total_tokens = r.prompt_tokens + r.completion_tokens

\* C17 witness: a successful stream in which a content event follows the
\* event that reports usage.completion_tokens, after an earlier content
\* event.
C17_Witness ==
    /\ StreamSucceeded
    /\ Reporting # {}
    /\ \E i \in 1..call.pos : i < LastReporting /\ IsContent(call.sse[i])
    /\ \E i \in 1..call.pos : i > LastReporting /\ IsContent(call.sse[i])
    /\ call.res.value.completion_tokens > Reported(LastReporting)

\* A malformed stream event: its payload does not parse as JSON, or the
\* lookup of its first choice raises KeyError.
IsMalformed(line) == line.kind \in { "badjson", "keyerror" }

C18_Step ==
    (/\ call.pc = "stream"
     /\ call'.pos = call.pos + 1
     /\ IsMalformed(call.sse[call.pos + 1])) =>
        /\ call'.pc = "stream"
        /\ call'.ttft_time = call.ttft_time
        /\ call'.first_token_time = call.first_token_time
        /\ call'.generation_start_time = call.generation_start_time
        /\ call'.prompt_tokens = call.prompt_tokens
        /\ call'.completion_tokens = call.completion_tokens
        /\ call'.res = NoResult

\* A streaming call that failed did so at the opening of the stream, at the
\* await of a line, or in an event that parsed: never at a malformed event.
C18_Ended ==
    (CallReturned /\ config.stream /\ ~call.res.value.success) =>
        \/ call.ended \in StreamOpens \cup ReadFaults
        \/ /\ call.ended = "fault"
           /\ call.pos >= 1
           /\ call.sse[call.pos].kind = "chunk"

\* C18: in the streaming path a malformed event is skipped: it leaves
\* ttft_ms, the generation-start reference, prompt_tokens and
\* completion_tokens unchanged, the loop goes on with the next event, and
\* the request ends as a successful result once the stream completes.
C18_MalformedSkipped ==
    [][ /\ C18_Step
        /\ C18_Ended'
        /\ (call.pc = "stream" /\ call'.pc = "done"
            /\ call'.ended \notin ReadFaults \cup { "fault" }) =>
               call'.res.kind = "result" /\ call'.res.value.success ]_vars

\* C18 witness: a stream returned success with a ttft_ms after a malformed
\* event that came between two content events.
C18_Witness ==
    /\ StreamSucceeded
    /\ call.res.value.ttft_ms # None
    /\ \E i \in 2..(call.pos - 1) :
           /\ IsMalformed(call.sse[i])
           /\ IsContent(call.sse[i - 1])
           /\ IsContent(call.sse[i + 1])

\* The index of the first content event read.
FirstContent ==
    CHOOSE i \in 1..call.pos :
        /\ IsContent(call.sse[i])
        /\ \A j \in 1..(i - 1) : ~IsContent(call.sse[j])

\* The clock when event i is processed: one await to open the stream and
\* one for each line.
EventTime(i) == call.start_time + 1 + i

\* ttft_ms and the generation-start reference are absent until the first
\* content event and are what that event set in every later state.
TtftAtFirstContent ==
    IF ContentSeen
    THEN /\ call.ttft_time =
                Some((EventTime(FirstContent) - call.start_time) * 1000)
         /\ call.generation_start_time = Some(EventTime(FirstContent))
    ELSE /\ call.ttft_time = None
         /\ call.generation_start_time = None

\* Reading "data: [DONE]" ends the call: no line after it is read.
DoneEndsProcessing ==
    \A i \in 1..call.pos :
        call.sse[i].kind = "done" =>
            i = call.pos /\ call.pc = "done" /\ call.ended = "ok"

ContentThenDone ==
    /\ call.pc = "done"
    /\ ContentSeen
    /\ call.sse[call.pos].kind = "done"

NoContentResult ==
    (StreamSucceeded /\ ~ContentSeen) =>
        /\ call.res.value.ttft_ms = None
        /\ call.res.value.tokens_per_second = Some(Zero)

\* C19 as stated: ttft_ms and the generation-start reference are set once,
\* at the first event with non-empty delta content, and no later event
\* changes them; events after "data: [DONE]" are not processed; a stream
\* with a content event followed by [DONE] yields success, a ttft_ms and
\* completion_tokens >= 1; a successful stream with no content event yields
\* no ttft_ms and tokens_per_second = 0.
C19_ContentGivesTokens ==
    call.pc \in { "stream", "done" } =>
        /\ TtftAtFirstContent
        /\ DoneEndsProcessing
        /\ ContentThenDone =>
               /\ call.res.kind = "result"
               /\ call.res.value.success
               /\ call.res.value.ttft_ms # None
               /\ call.res.value.completion_tokens >= 1
        /\ NoContentResult

\* C19 amended: the same, but completion_tokens >= 1 holds for a stream
\* with a content event followed by [DONE] when no event of it reports
\* usage.completion_tokens = 0; a reported count replaces the estimate.
C19_TtftSetOnce ==
    call.pc \in { "stream", "done" } =>
        /\ TtftAtFirstContent
        /\ DoneEndsProcessing
        /\ ContentThenDone =>
               /\ call.res.kind = "result"
               /\ call.res.value.success
               /\ call.res.value.ttft_ms = call.ttft_time
               /\ call.res.value.ttft_ms # None
               /\ (\A i \in Reporting : Reported(i) >= 1) =>
                      call.res.value.completion_tokens >= 1
        /\ NoContentResult

\* C19 witness: a stream with two content events at different times and
\* then [DONE] returned the ttft_ms of the first.
C19_Witness ==
    /\ ContentThenDone
    /\ call.pos = 3
    /\ IsContent(call.sse[1])
    /\ IsContent(call.sse[2])
    /\ call.res.value.ttft_ms = Some(2000)

\* Every one of the total_requests request tasks went through the gate and
\* entered the executor.
AllAdmitted ==
    \A t \in 1..config.total_requests :
        t \in DOMAIN tasks /\ tasks[t].calls = 1

\* C20: if every call of the executor returns, then under fair scheduling
\* every one of the total_requests request tasks is eventually admitted
\* through the gate (none starves or deadlocks waiting for a permit), the
\* measured phase eventually ends, and run() eventually returns a
\* LoadTestResults.
C20_RunReturns ==
    /\ <>AllAdmitted
    /\ \A t \in 1..MaxRequests :
           (t \in DOMAIN tasks /\ tasks[t].st = "gate")
               ~> (t \in DOMAIN tasks /\ tasks[t].st \in { "exec", "done" }
                   /\ tasks[t].calls = 1)
    /\ <>MeasuredPhaseCompleted
    /\ <>(pc = "exit" /\ outcome.kind = "results")

\* C20 witness: a run with more requests than permits, in which every
\* request was admitted, returned its results.
C20_Witness ==
    /\ pc = "exit"
    /\ outcome.kind = "results"
    /\ cancels = 0
    /\ config.total_requests > config.concurrency
    /\ AllAdmitted

====
